---- MODULE Spec2Model ----
(***************************************************************************)
(* PlantCareAI (src/app.py): a Streamlit script that is rerun from the top *)
(* on every interaction.  The persistent state is the two CSV files; one   *)
(* action of the model is one interaction together with the script run(s)  *)
(* it triggers.                                                            *)
(*                                                                         *)
(* Strings whose characters the program inspects (the date columns) are    *)
(* sequences of one-character strings; names and species are only compared *)
(* for equality and emptiness and stay TLA+ strings.  Temperatures and     *)
(* humidity are whole numbers (the comparisons are the same on floats).    *)
(***************************************************************************)
EXTENDS Integers, Sequences, FiniteSets, TLC

VARIABLES plantsCsv,   \* data/plants.csv: sequence of rows
          growthCsv,   \* data/growth_logs.csv: sequence of rows
          plantDb,     \* PLANT_DB, never written
          clock,       \* wall clock: [date, sec]
          screen,      \* what the last script run rendered
          lastEvent    \* the interaction that triggered the last run

vars == <<plantsCsv, growthCsv, plantDb, clock, screen, lastEvent>>

(***************************************************************************)
(* Bounds of the model.                                                    *)
(***************************************************************************)
MaxInterval == 4     \* water intervals 1..MaxInterval of the added species
MaxDays == 1         \* midnights the clock may pass
MaxSec == 1          \* seconds the clock may tick
MaxPlants == 2       \* rows 'Save / Add Plant' may append

(***************************************************************************)
(* Characters, numbers and splitting.                                      *)
(***************************************************************************)
Digits == <<"0", "1", "2", "3", "4", "5", "6", "7", "8", "9">>

IsDigit(c) == \E i \in 1..10 : Digits[i] = c

DigitVal(c) == (CHOOSE i \in 1..10 : Digits[i] = c) - 1

AllDigits(s) == \A i \in 1..Len(s) : IsDigit(s[i])

RECURSIVE Num(_)
Num(s) == IF Len(s) = 0 THEN 0
          ELSE 10 * Num(SubSeq(s, 1, Len(s) - 1)) + DigitVal(s[Len(s)])

\* n written with at least w digits, zero padded (the %02d / %04d of strftime)
RECURSIVE Pad(_, _)
Pad(n, w) == IF w <= 1 /\ n < 10 THEN <<Digits[n + 1]>>
             ELSE Pad(n \div 10, w - 1) \o <<Digits[(n % 10) + 1]>>

RECURSIVE Split(_, _)
Split(s, sep) ==
    IF \A i \in 1..Len(s) : s[i] # sep THEN <<s>>
    ELSE LET i == CHOOSE k \in 1..Len(s) :
                      s[k] = sep /\ \A j \in 1..(k - 1) : s[j] # sep
         IN <<SubSeq(s, 1, i - 1)>> \o Split(SubSeq(s, i + 1, Len(s)), sep)

(***************************************************************************)
(* datetime.date: the proleptic Gregorian calendar.                        *)
(***************************************************************************)
IsLeap(y) == (y % 4 = 0) /\ ((y % 100 # 0) \/ (y % 400 = 0))

DaysInMonth(y, m) ==
    IF m = 2 THEN (IF IsLeap(y) THEN 29 ELSE 28)
    ELSE IF m \in {4, 6, 9, 11} THEN 30 ELSE 31

RECURSIVE DaysBeforeMonth(_, _)
DaysBeforeMonth(y, m) ==
    IF m = 1 THEN 0 ELSE DaysBeforeMonth(y, m - 1) + DaysInMonth(y, m - 1)

MkDate(y, m, d) == [y |-> y, m |-> m, d |-> d]

ValidDate(y, m, d) ==
    /\ y >= 1 /\ y <= 9999
    /\ m >= 1 /\ m <= 12
    /\ d >= 1 /\ d <= DaysInMonth(y, m)

\* date.toordinal(): 0001-01-01 is day 1
ToOrdinal(dt) ==
    LET y1 == dt.y - 1
    IN 365 * y1 + (y1 \div 4) - (y1 \div 100) + (y1 \div 400)
       + DaysBeforeMonth(dt.y, dt.m) + dt.d

\* the wall clock passing midnight
NextDate(dt) ==
    IF dt.d < DaysInMonth(dt.y, dt.m) THEN MkDate(dt.y, dt.m, dt.d + 1)
    ELSE IF dt.m < 12 THEN MkDate(dt.y, dt.m + 1, 1)
    ELSE MkDate(dt.y + 1, 1, 1)

PrevDate(dt) ==
    IF dt.d > 1 THEN MkDate(dt.y, dt.m, dt.d - 1)
    ELSE IF dt.m > 1 THEN MkDate(dt.y, dt.m - 1, DaysInMonth(dt.y, dt.m - 1))
    ELSE MkDate(dt.y - 1, 12, 31)

RECURSIVE DateShift(_, _)
DateShift(dt, n) ==
    IF n = 0 THEN dt
    ELSE IF n > 0 THEN DateShift(NextDate(dt), n - 1)
    ELSE DateShift(PrevDate(dt), n + 1)

\* strftime("%Y-%m-%d")
Strftime(dt) == Pad(dt.y, 4) \o <<"-">> \o Pad(dt.m, 2) \o <<"-">> \o Pad(dt.d, 2)

\* The result of a parse: ok = FALSE is the raised ValueError.
NoDate == MkDate(0, 0, 0)
ParseOk(dt) == [ok |-> TRUE, dt |-> dt]
ParseError == [ok |-> FALSE, dt |-> NoDate]

\* year-month-day fields separated by sep: a 4-digit year, 1-2 digit month and day
DateOf(y, m, d) == IF ValidDate(y, m, d) THEN ParseOk(MkDate(y, m, d)) ELSE ParseError

ParseFields(p) ==
    IF /\ Len(p) = 3
       /\ Len(p[1]) = 4 /\ AllDigits(p[1])
       /\ Len(p[2]) \in {1, 2} /\ AllDigits(p[2])
       /\ Len(p[3]) \in {1, 2} /\ AllDigits(p[3])
    THEN DateOf(Num(p[1]), Num(p[2]), Num(p[3]))
    ELSE ParseError

ParseYmd(s, sep) == ParseFields(Split(s, sep))

\* datetime.strptime(d, "%Y-%m-%d").date()
Strptime(s) == ParseYmd(s, "-")

\* pd.to_datetime(d).date() of a string strptime refused: of the strings of
\* the model pandas reads the slash-separated dates and raises on the rest.
ToDatetimeStr(s) == ParseYmd(s, "/")

\* pd.to_datetime(d).date() of a number: nanoseconds since 1970-01-01; every
\* number the model holds is less than one day of nanoseconds
EpochDate == MkDate(1970, 1, 1)
ToDatetimeNum(n) == ParseOk(EpochDate)

(***************************************************************************)
(* Cells of the date columns as pd.read_csv yields them: NaN, a string, or *)
(* a number (a cell of digits only, in a column of such cells).  In the    *)
(* file a missing value is the empty cell.                                 *)
(***************************************************************************)
NaN == [k |-> "nan", s |-> << >>, n |-> 0]
StrCell(s) == [k |-> "str", s |-> s, n |-> 0]
NumCell(n) == [k |-> "num", s |-> << >>, n |-> n]

\* pd.read_csv: an empty cell is read as NaN
ReadCell(c) == IF c.k = "str" /\ c.s = << >> THEN NaN ELSE c

\* df.to_csv: NaN is written as the empty cell
WriteCell(c) == IF c.k = "nan" THEN StrCell(<< >>) ELSE c

\* lines 88-92, of a file that exists
load_df(csv) ==
    [i \in 1..Len(csv) |->
        [csv[i] EXCEPT !.last_watered = ReadCell(@),
                       !.last_fertilized = ReadCell(@)]]

\* lines 94-95: the file's new content
save_df(df) ==
    [i \in 1..Len(df) |->
        [df[i] EXCEPT !.last_watered = WriteCell(@),
                      !.last_fertilized = WriteCell(@)]]

\* The result of days_since: st = "none" is None, "raise" the exception
\* that leaves the function, "ok" the integer days.
DaysNone == [st |-> "none", days |-> 0]
DaysRaise == [st |-> "raise", days |-> 0]
DaysOk(n) == [st |-> "ok", days |-> n]

\* line 111, or the exception of line 106 / 110 leaving the function
DaysBetween(p, today) ==
    IF p.ok THEN DaysOk(ToOrdinal(today) - ToOrdinal(p.dt)) ELSE DaysRaise

\* lines 102-106: try strptime, except: pd.to_datetime
TryStrptime(p, s) == IF p.ok THEN p ELSE ToDatetimeStr(s)

days_since(d, today) ==
    IF d.k = "nan" \/ (d.k = "str" /\ d.s = << >>) THEN DaysNone
    ELSE IF d.k = "str" THEN DaysBetween(TryStrptime(Strptime(d.s), d.s), today)
    ELSE DaysBetween(ToDatetimeNum(d.n), today)

(***************************************************************************)
(* PLANT_DB and the lookup with defaults.                                  *)
(***************************************************************************)
PLANT_DB ==
    ("Tomato" :>
        [type |-> "Vegetable", water_interval_days |-> 2,
         sunlight_hours_min |-> 6, sunlight_hours_max |-> 8,
         temp_c_min |-> 18, temp_c_max |-> 27,
         fertilizer |-> "Balanced NPK every 2 weeks during growing season"]) @@
    ("Rose" :>
        [type |-> "Flower", water_interval_days |-> 3,
         sunlight_hours_min |-> 5, sunlight_hours_max |-> 8,
         temp_c_min |-> 10, temp_c_max |-> 25,
         fertilizer |-> "High-P potassium fertilizer once a month during bloom"]) @@
    ("Snake Plant" :>
        [type |-> "Indoor - Low Light", water_interval_days |-> 21,
         sunlight_hours_min |-> 1, sunlight_hours_max |-> 4,
         temp_c_min |-> 15, temp_c_max |-> 30,
         fertilizer |-> "Very light during spring"]) @@
    ("Aloe Vera" :>
        [type |-> "Succulent", water_interval_days |-> 21,
         sunlight_hours_min |-> 3, sunlight_hours_max |-> 6,
         temp_c_min |-> 15, temp_c_max |-> 30,
         fertilizer |-> "Light succulent fertilizer in spring"]) @@
    ("Basil" :>
        [type |-> "Herb", water_interval_days |-> 3,
         sunlight_hours_min |-> 4, sunlight_hours_max |-> 8,
         temp_c_min |-> 18, temp_c_max |-> 30,
         fertilizer |-> "Every 3-4 weeks with balanced fertilizer"])

EmptyDict == [x \in {} |-> 0]

\* dict.get(key, default)
Get(dict, key, default) == IF key \in DOMAIN dict THEN dict[key] ELSE default

\* lines 300-306: the ideal envelope of a species
IdealOf(db) ==
    [ideal_interval |-> Get(db, "water_interval_days", 3),
     sun_min |-> Get(db, "sunlight_hours_min", 3),
     sun_max |-> Get(db, "sunlight_hours_max", 8),
     tmin |-> Get(db, "temp_c_min", 10),
     tmax |-> Get(db, "temp_c_max", 30),
     fert_note |-> Get(db, "fertilizer", "Follow package instructions")]

\* Ideal finding "tomato" under "Tomato": a lookup that ignores case
IdealIgnoringCase(table, species) ==
    IdealOf(Get(table, IF species = "tomato" THEN "Tomato" ELSE species, EmptyDict))

Ideal(table, species) == IdealOf(Get(table, species, EmptyDict))

(***************************************************************************)
(* The badges / recommendations logic of the plant list.                   *)
(* A recommendation string is the record of its template and the values    *)
(* formatted into it.                                                      *)
(***************************************************************************)
Rec(msg, a, b, note) == [msg |-> msg, a |-> a, b |-> b, note |-> note]

Max(a, b) == IF a >= b THEN a ELSE b

FertilizeAfterDays == 14
LowHumidity == 30
HighHumidity == 85

\* Each check maps the lists so far to the lists after it.
Out(badges, recs) == [badges |-> badges, recs |-> recs]

\* WaterChecks comparing with the interval itself: the + 1 of line 315 lost
WaterChecksOffByOne(o, days_water, ideal_interval) ==
    IF days_water.st = "none"
    THEN Out(o.badges, Append(o.recs, Rec("water_unknown", 0, 0, "")))
    ELSE IF days_water.days >= ideal_interval
    THEN Out(Append(o.badges, "NeedsWater"),
             Append(o.recs, Rec("water_needs", days_water.days, ideal_interval, "")))
    ELSE IF days_water.days <= Max(1, ideal_interval \div 2)
    THEN Out(o.badges, Append(o.recs, Rec("water_recent", 0, 0, "")))
    ELSE Out(Append(o.badges, "Hydrated"),
             Append(o.recs, Rec("water_ok", 0, 0, "")))

WaterChecks(o, days_water, ideal_interval) ==
    IF days_water.st = "none"
    THEN Out(o.badges, Append(o.recs, Rec("water_unknown", 0, 0, "")))
    ELSE IF days_water.days >= ideal_interval + 1
    THEN Out(Append(o.badges, "NeedsWater"),
             Append(o.recs, Rec("water_needs", days_water.days, ideal_interval, "")))
    ELSE IF days_water.days <= Max(1, ideal_interval \div 2)
    THEN Out(o.badges, Append(o.recs, Rec("water_recent", 0, 0, "")))
    ELSE Out(Append(o.badges, "Hydrated"),
             Append(o.recs, Rec("water_ok", 0, 0, "")))

\* FertilizerChecks taking a missing date for an overdue one
FertilizerChecksMissingIsDue(o, days_fert, fert_note) ==
    IF days_fert.st = "none" \/ days_fert.days >= FertilizeAfterDays
    THEN Out(Append(o.badges, "Fertilize"),
             Append(o.recs, Rec("fert_due", days_fert.days, 0, fert_note)))
    ELSE Out(o.badges, Append(o.recs, Rec("fert_ok", 0, 0, "")))

FertilizerChecks(o, days_fert, fert_note) ==
    IF days_fert.st = "none"
    THEN Out(o.badges, Append(o.recs, Rec("fert_missing", 0, 0, "")))
    ELSE IF days_fert.days >= FertilizeAfterDays
    THEN Out(Append(o.badges, "Fertilize"),
             Append(o.recs, Rec("fert_due", days_fert.days, 0, fert_note)))
    ELSE Out(o.badges, Append(o.recs, Rec("fert_ok", 0, 0, "")))

\* SunlightChecks with the bounds excluded from the range
SunlightChecksExclusive(o, current_sun, sun_min, sun_max) ==
    IF current_sun <= sun_min
    THEN Out(Append(o.badges, "LowLight"),
             Append(o.recs, Rec("sun_low", current_sun, sun_min, "")))
    ELSE IF current_sun >= sun_max
    THEN Out(Append(o.badges, "TooMuchSun"),
             Append(o.recs, Rec("sun_high", current_sun, sun_max, "")))
    ELSE Out(o.badges, Append(o.recs, Rec("sun_ok", 0, 0, "")))

SunlightChecks(o, current_sun, sun_min, sun_max) ==
    IF current_sun < sun_min
    THEN Out(Append(o.badges, "LowLight"),
             Append(o.recs, Rec("sun_low", current_sun, sun_min, "")))
    ELSE IF current_sun > sun_max
    THEN Out(Append(o.badges, "TooMuchSun"),
             Append(o.recs, Rec("sun_high", current_sun, sun_max, "")))
    ELSE Out(o.badges, Append(o.recs, Rec("sun_ok", 0, 0, "")))

\* TemperatureChecks with an 'else' like the one of the sunlight checks
TemperatureChecksWithOk(o, current_temp, tmin, tmax) ==
    IF current_temp < tmin
    THEN Out(Append(o.badges, "TooCold"),
             Append(o.recs, Rec("temp_cold", current_temp, tmin, "")))
    ELSE IF current_temp > tmax
    THEN Out(Append(o.badges, "TooHot"),
             Append(o.recs, Rec("temp_hot", current_temp, tmax, "")))
    ELSE Out(o.badges, Append(o.recs, Rec("temp_ok", 0, 0, "")))

TemperatureChecks(o, current_temp, tmin, tmax) ==
    IF current_temp < tmin
    THEN Out(Append(o.badges, "TooCold"),
             Append(o.recs, Rec("temp_cold", current_temp, tmin, "")))
    ELSE IF current_temp > tmax
    THEN Out(Append(o.badges, "TooHot"),
             Append(o.recs, Rec("temp_hot", current_temp, tmax, "")))
    ELSE o

LowHumidityCheck(o, humidity) ==
    IF humidity < LowHumidity
    THEN Out(o.badges, Append(o.recs, Rec("hum_low", 0, 0, "")))
    ELSE o

HighHumidityCheck(o, humidity) ==
    IF humidity > HighHumidity
    THEN Out(o.badges, Append(o.recs, Rec("hum_high", 0, 0, "")))
    ELSE o

HumidityChecks(o, humidity) ==
    HighHumidityCheck(LowHumidityCheck(o, humidity), humidity)

\* NewList without the assignment: the list of the previous iteration stays
KeptList(previous) == previous

\* lines 309-310: badges = [] ; recs = [] at the top of every iteration.
\* The argument is what the script's global held before the assignment.
NewList(previous) == << >>

\* lines 308-356, given the elapsed days and the ideal envelope
Checks(row, days_water, days_fert, ideal, badges, recs) ==
    HumidityChecks(
        TemperatureChecks(
            SunlightChecks(
                FertilizerChecks(
                    WaterChecks(Out(NewList(badges), NewList(recs)),
                                days_water, ideal.ideal_interval),
                    days_fert, ideal.fert_note),
                row.sunlight_hours, ideal.sun_min, ideal.sun_max),
            row.temp_c, ideal.tmin, ideal.tmax),
        row.humidity_percent)

Evaluated(raised, o) == [raised |-> raised, badges |-> o.badges, recs |-> o.recs]

EvaluateWith(row, days_water, days_fert, ideal, badges, recs) ==
    IF days_water.st = "raise" \/ days_fert.st = "raise"
    THEN Evaluated(TRUE, Out(badges, recs))
    ELSE Evaluated(FALSE, Checks(row, days_water, days_fert, ideal, badges, recs))

\* lines 292-356 for one row: raised = TRUE when days_since raised, and then
\* the script run ends there.  badges and recs are what the script's
\* globals held when the iteration began.
Evaluate(row, today, table, badges, recs) ==
    EvaluateWith(row, days_since(row.last_watered, today),
                 days_since(row.last_fertilized, today),
                 Ideal(table, row.species), badges, recs)

(***************************************************************************)
(* Text shown to the user: the lines of a text, and whether the text is    *)
(* the language model's rewriting of them.                                 *)
(***************************************************************************)
Text(lines) == [polished |-> FALSE, lines |-> lines]
Polished(text) == [polished |-> TRUE, lines |-> text.lines]

\* "\n".join(recs)
JoinLines(recs) == Text(recs)

\* lines 124-129
pretty_recs_block(recs) == [i \in 1..Len(recs) |-> <<"- ", recs[i], "\n">>]

\* What a call of a function did: returned a text, or raised.
Returned(text) == [raised |-> FALSE, text |-> text]
Raised == [raised |-> TRUE, text |-> Text(<< >>)]

\* The environment of llm_polish: whether `import openai` worked, and what
\* the body of the try does: it raises (the secret is missing, the request
\* fails or times out, the reply has no choice) or the completion arrives.
Llm(available, call) == [available |-> available, call |-> call]

LlmOutcomes == { Llm(FALSE, "raises"), Llm(TRUE, "raises"), Llm(TRUE, "ok") }

\* lines 137-150, the body of the try
OpenAiCompletion(text, llm) ==
    IF llm.call = "ok" THEN Returned(Polished(text)) ELSE Raised

\* lines 131-153
\* TryExcept without the except clause
NoExcept(r, text) == r

\* lines 136-153: try ... except Exception: return text
TryExcept(r, text) == IF r.raised THEN Returned(text) ELSE r

\* lines 131-153
llm_polish(text, llm) ==
    IF ~llm.available THEN Returned(text)
    ELSE TryExcept(OpenAiCompletion(text, llm), text)

(***************************************************************************)
(* plants_df.sort_values("added_on", ascending=False): descending, rows    *)
(* with equal keys in their original order (the frames here are short      *)
(* enough for the sort to be an insertion sort).                           *)
(***************************************************************************)
Code(c) == IF IsDigit(c) THEN 48 + DigitVal(c)
           ELSE IF c = "-" THEN 45
           ELSE IF c = "/" THEN 47
           ELSE 97

RECURSIVE StrLess(_, _)
StrLess(a, b) ==
    IF Len(b) = 0 THEN FALSE
    ELSE IF Len(a) = 0 THEN TRUE
    ELSE IF Code(a[1]) # Code(b[1]) THEN Code(a[1]) < Code(b[1])
    ELSE StrLess(Tail(a), Tail(b))

RECURSIVE InsertDesc(_, _)
InsertDesc(sorted, r) ==
    IF Len(sorted) = 0 THEN <<r>>
    ELSE IF StrLess(sorted[1].added_on, r.added_on) THEN <<r>> \o sorted
    ELSE <<sorted[1]>> \o InsertDesc(Tail(sorted), r)

RECURSIVE SortDesc(_)
SortDesc(df) ==
    IF Len(df) = 0 THEN << >>
    ELSE InsertDesc(SortDesc(SubSeq(df, 1, Len(df) - 1)), df[Len(df)])

(***************************************************************************)
(* One script run.                                                         *)
(***************************************************************************)
\* kind: the widget used; id: the plant it belongs to; val: the height typed
Event(kind, id, val) == [kind |-> kind, id |-> id, val |-> val]
NoEvent == Event("none", 0, 0)

\* st.button(..., key=...) is True only in the run its own click triggered
Pressed(ev, kind, id) == ev.kind = kind /\ ev.id = id

\* What one iteration put on the page: the badges, the recommendations
\* block, and whether the row's action buttons were reached.
Card(row, e, shown, buttons) ==
    [id |-> row.id, badges |-> e.badges, shown |-> shown, buttons |-> buttons]

\* The state of the plant-list loop: the cards rendered, the widget keys
\* registered, the script's globals badges and recs, the plant whose growth
\* inputs are shown, and how the loop ended ("" = ran to its end).
LoopState(cards, seen, badges, recs, growOpen, stop, id) ==
    [cards |-> cards, seen |-> seen, badges |-> badges, recs |-> recs,
     growOpen |-> growOpen, stop |-> stop, id |-> id]

Stopped(st, cards, e, stop, id) ==
    LoopState(cards, st.seen, e.badges, e.recs, st.growOpen, stop, id)

\* lines 360-392 for one row: the polishing, the display and the buttons;
\* the result is the loop's state after the row, stop = "" to go on.
ShowRow(row, ev, st, e, polished, shown) ==
    IF e.raised THEN Stopped(st, st.cards, e, "days_since_raised", row.id)
    ELSE IF polished.raised THEN Stopped(st, st.cards, e, "llm_polish_raised", row.id)
    ELSE IF row.id \in st.seen
    THEN \* Streamlit refuses a second widget with the key water_<id>
         Stopped(st, Append(st.cards, Card(row, e, shown, FALSE)), e,
                 "duplicate_widget_key", row.id)
    ELSE IF Pressed(ev, "water", row.id)
    THEN Stopped(st, Append(st.cards, Card(row, e, shown, TRUE)), e, "water", row.id)
    ELSE IF Pressed(ev, "fert", row.id)
    THEN Stopped(st, Append(st.cards, Card(row, e, shown, TRUE)), e, "fert", row.id)
    ELSE IF Pressed(ev, "grow", row.id) /\ Pressed(ev, "save_growth", row.id)
    THEN Stopped(st, Append(st.cards, Card(row, e, shown, TRUE)), e,
                 "save_growth", row.id)
    ELSE LoopState(Append(st.cards, Card(row, e, shown, TRUE)),
                   st.seen \cup {row.id}, e.badges, e.recs,
                   IF Pressed(ev, "grow", row.id) THEN row.id ELSE st.growOpen,
                   "", 0)

\* lines 292-365 for one row
RenderRow(row, ev, llm, st, e) ==
    ShowRow(row, ev, st, e, llm_polish(JoinLines(e.recs), llm),
            pretty_recs_block(e.recs))

\* lines 276-392, from row i of the sorted frame on
RECURSIVE PlantLoop(_, _, _, _, _, _, _)
PlantLoop(rows, i, ev, today, table, llm, st) ==
    IF i > Len(rows) \/ st.stop # "" THEN st
    ELSE PlantLoop(rows, i + 1, ev, today, table, llm,
            RenderRow(rows[i], ev, llm, st,
                      Evaluate(rows[i], today, table, st.badges, st.recs)))

(***************************************************************************)
(* The quick input: ai_text is known by whether it is blank and by which   *)
(* of the phrases the script searches for occur in its lower-cased form.   *)
(***************************************************************************)
AiText(blank, has) == [blank |-> blank, has |-> has]

HasAny(text, phrases) == text.has \cap phrases # {}

\* line 260: if not recs
OrNoUrgentIssue(found) ==
    IF found = << >> THEN <<Rec("ai_none", 0, 0, "")>> ELSE found

\* lines 247-262
AnalyzeRecs(text) ==
    OrNoUrgentIssue(
        (IF HasAny(text, {"dry", "wilting", "droop", "wilt", "5 days", "not watered"})
         THEN <<Rec("ai_water", 0, 0, "")>> ELSE << >>)
        \o (IF HasAny(text, {"yellow"}) /\ HasAny(text, {"leaves", "leaf"})
            THEN <<Rec("ai_yellow", 0, 0, "")>> ELSE << >>)
        \o (IF HasAny(text, {"brown tip", "brown"})
            THEN <<Rec("ai_brown", 0, 0, "")>> ELSE << >>)
        \o (IF HasAny(text, {"pests", "aphid", "mealy"})
            THEN <<Rec("ai_pests", 0, 0, "")>> ELSE << >>)
        \o (IF HasAny(text, {"no sun", "3 hours", "too little sun"})
            THEN <<Rec("ai_sun", 0, 0, "")>> ELSE << >>))

\* What the quick-input card shows: nothing, the warning, or the text.
NoAi == [kind |-> "", text |-> Text(<< >>)]
AiWarning == [kind |-> "warning", text |-> Text(<< >>)]
AiInfo(text) == [kind |-> "info", text |-> text]

(***************************************************************************)
(* The whole script, lines 155-423, for one triggering event.  inp holds   *)
(* the values of the input widgets in this run.                            *)
(***************************************************************************)
Inputs(name, species, lw, lf, sun, temp, hum, ai_text, height) ==
    [name |-> name, species |-> species, last_watered |-> lw,
     last_fertilized |-> lf, sunlight_hours |-> sun, temp_c |-> temp,
     humidity |-> hum, ai_text |-> ai_text, height |-> height]

\* the widgets' default values (lines 199-210, 240, 385)
DefaultInputs(today) ==
    Inputs("", "Tomato", today, today, 6, 25, 50, AiText(TRUE, {}), 0)

\* lines 217-231
NewRow(inp, clk) ==
    [id |-> clk.sec, name |-> inp.name, species |-> inp.species,
     last_watered |-> StrCell(Strftime(inp.last_watered)),
     last_fertilized |-> StrCell(Strftime(inp.last_fertilized)),
     sunlight_hours |-> inp.sunlight_hours, temp_c |-> inp.temp_c,
     humidity_percent |-> inp.humidity,
     added_on |-> Strftime(clk.date)]

\* SetWhereId writing the other of the two columns
SetWhereIdOtherColumn(df, id, column, today) ==
    [i \in 1..Len(df) |->
        IF df[i].id = id
        THEN (IF column = "last_watered"
              THEN [df[i] EXCEPT !.last_fertilized = StrCell(Strftime(today))]
              ELSE [df[i] EXCEPT !.last_watered = StrCell(Strftime(today))])
        ELSE df[i]]

\* plants_df.loc[plants_df['id'] == id, column] = today's date (lines 374, 379)
SetWhereId(df, id, column, today) ==
    [i \in 1..Len(df) |->
        IF df[i].id = id
        THEN (IF column = "last_watered"
              THEN [df[i] EXCEPT !.last_watered = StrCell(Strftime(today))]
              ELSE [df[i] EXCEPT !.last_fertilized = StrCell(Strftime(today))])
        ELSE df[i]]

\* line 389
GrowthRow(id, today, h) == [plant_id |-> id, date |-> Strftime(today), height_cm |-> h]

Screen(cards, error, growOpen, ai, formMsg, chart, date) ==
    [cards |-> cards, error |-> error, growOpen |-> growOpen, ai |-> ai,
     formMsg |-> formMsg, chart |-> chart, date |-> date]

RunResult(pcsv, gcsv, scr) == [plantsCsv |-> pcsv, growthCsv |-> gcsv, screen |-> scr]

\* lines 212-234: the frame after the form
AfterForm(ev, inp, df, clk) ==
    IF ev.kind = "save" /\ ~(inp.name = "" \/ inp.species = "")
    THEN Append(df, NewRow(inp, clk)) ELSE df

\* line 233: the file after the form
AfterFormCsv(ev, inp, pcsv, clk) ==
    IF ev.kind = "save" /\ ~(inp.name = "" \/ inp.species = "")
    THEN save_df(AfterForm(ev, inp, load_df(pcsv), clk)) ELSE pcsv

FormMessage(ev, inp) ==
    IF ev.kind # "save" THEN ""
    ELSE IF inp.name = "" \/ inp.species = "" THEN "error" ELSE "saved"

\* lines 242-265: the recommendations of the quick input (the global recs)
Analysing(ev, inp) == ev.kind = "analyze" /\ ~inp.ai_text.blank

QuickRecs(ev, inp) == IF Analysing(ev, inp) THEN AnalyzeRecs(inp.ai_text) ELSE << >>

QuickCard(ev, inp, polished) ==
    IF ev.kind # "analyze" THEN NoAi
    ELSE IF inp.ai_text.blank THEN AiWarning
    ELSE AiInfo(polished.text)

\* lines 272-392
PlantList(ev, df, today, table, llm, recs) ==
    PlantLoop(SortDesc(df), 1, ev, today, table, llm,
              LoopState(<< >>, {}, << >>, recs, 0, "", 0))

RunError(loop) ==
    IF loop.stop \in {"days_since_raised", "llm_polish_raised", "duplicate_widget_key"}
    THEN loop.stop ELSE ""

\* lines 400-418
Chart(loop, growth_df) ==
    IF RunError(loop) # "" THEN "none"
    ELSE IF Len(growth_df) = 0 THEN "hint" ELSE "plot"

\* the page of a run that reached its end or stopped on an exception
Page(ev, inp, gcsv, today, polished, loop) ==
    Screen(loop.cards, RunError(loop), loop.growOpen, QuickCard(ev, inp, polished),
           FormMessage(ev, inp), Chart(loop, gcsv), today)

RECURSIVE Script(_, _, _, _, _, _, _)

\* the plant list's part of the run, and st.experimental_rerun()
ScriptList(ev, inp, pcsv, df, gcsv, clk, table, llm, polished, loop) ==
    IF loop.stop = "water"
    THEN Script(NoEvent, inp,
                save_df(SetWhereId(df, loop.id, "last_watered", clk.date)),
                gcsv, clk, table, llm)
    ELSE IF loop.stop = "fert"
    THEN Script(NoEvent, inp,
                save_df(SetWhereId(df, loop.id, "last_fertilized", clk.date)),
                gcsv, clk, table, llm)
    ELSE IF loop.stop = "save_growth"
    THEN Script(NoEvent, inp, pcsv,
                Append(gcsv, GrowthRow(loop.id, clk.date, inp.height)),
                clk, table, llm)
    ELSE RunResult(pcsv, gcsv, Page(ev, inp, gcsv, clk.date, polished, loop))

\* the quick input's part of the run
ScriptQuick(ev, inp, pcsv, df, gcsv, clk, table, llm, recs, polished) ==
    IF Analysing(ev, inp) /\ polished.raised
    THEN RunResult(pcsv, gcsv,
            Screen(<< >>, "llm_polish_raised", 0, NoAi, FormMessage(ev, inp),
                   "none", clk.date))
    ELSE ScriptList(ev, inp, pcsv, df, gcsv, clk, table, llm, polished,
                    PlantList(ev, df, clk.date, table, llm, recs))

ScriptForm(ev, inp, pcsv, df, gcsv, clk, table, llm, recs) ==
    ScriptQuick(ev, inp, pcsv, df, gcsv, clk, table, llm, recs,
                llm_polish(JoinLines(recs), llm))

\* lines 155-423; pcsv and gcsv are the two files when the run begins
Script(ev, inp, pcsv, gcsv, clk, table, llm) ==
    ScriptForm(ev, inp, AfterFormCsv(ev, inp, pcsv, clk),
               AfterForm(ev, inp, load_df(pcsv), clk), gcsv, clk, table,
               llm, QuickRecs(ev, inp))

(***************************************************************************)
(* The environment: the clock, and the values the user may enter.          *)
(***************************************************************************)
StartDate == MkDate(2024, 3, 1)

\* the date, and the whole seconds of datetime.now().timestamp()
Clock(date, sec) == [date |-> date, sec |-> sec]
StartClock == Clock(StartDate, 1)

DaysPassed == ToOrdinal(clock.date) - ToOrdinal(StartDate)

Names == {"", "Fern"}
SpeciesChoices == {"Tomato", "Ficus"}

\* the dates picked in the two date inputs, as days before today
PickedDates == { <<3, 14>> }

AiTexts == { AiText(TRUE, {}),
             AiText(FALSE, {"yellow", "leaves", "5 days", "3 hours"}) }

Heights == {12}

BlankScreen == Screen(<< >>, "", 0, NoAi, "", "none", StartDate)

\* the buttons of plant id are on the page
ButtonsShown(id) ==
    \E i \in 1..Len(screen.cards) : screen.cards[i].id = id /\ screen.cards[i].buttons

ShownIds == { screen.cards[i].id : i \in 1..Len(screen.cards) }

\* one interaction: the event, the widget values, and the run(s) it triggers
Interact(ev, inp) ==
    \E llm \in LlmOutcomes :
        \E r \in {Script(ev, inp, plantsCsv, growthCsv, clock, plantDb, llm)} :
            /\ plantsCsv' = r.plantsCsv
            /\ growthCsv' = r.growthCsv
            /\ screen' = r.screen
            /\ lastEvent' = ev
            /\ UNCHANGED <<plantDb, clock>>

(***************************************************************************)
(* Actions.                                                                *)
(***************************************************************************)
\* the page is opened or reloaded
OpenPage == Interact(NoEvent, DefaultInputs(clock.date))

\* lines 212-234
SaveAddPlant ==
    /\ Len(plantsCsv) < MaxPlants
    /\ \E name \in Names, species \in SpeciesChoices, k \in PickedDates :
          Interact(Event("save", 0, 0),
                   Inputs(name, species, DateShift(clock.date, -k[1]),
                          DateShift(clock.date, -k[2]), 6, 25, 50, AiText(TRUE, {}), 0))

\* lines 242-265
Analyze ==
    \E text \in AiTexts :
        Interact(Event("analyze", 0, 0),
                 [DefaultInputs(clock.date) EXCEPT !.ai_text = text])

\* lines 373-376
MarkWatered ==
    \E id \in ShownIds :
        /\ ButtonsShown(id)
        /\ Interact(Event("water", id, 0), DefaultInputs(clock.date))

\* lines 378-381
MarkFertilized ==
    \E id \in ShownIds :
        /\ ButtonsShown(id)
        /\ Interact(Event("fert", id, 0), DefaultInputs(clock.date))

\* line 383
LogGrowth ==
    \E id \in ShownIds :
        /\ ButtonsShown(id)
        /\ Interact(Event("grow", id, 0), DefaultInputs(clock.date))

\* line 385: the height is typed into the number input the last run showed
EnterHeight ==
    /\ screen.growOpen # 0
    /\ \E h \in Heights :
          Interact(Event("height", screen.growOpen, h),
                   [DefaultInputs(clock.date) EXCEPT !.height = h])

\* line 387: 'Save growth' is clicked where the last run showed it
SaveGrowth ==
    /\ screen.growOpen # 0
    /\ \E h \in Heights :
          Interact(Event("save_growth", screen.growOpen, h),
                   [DefaultInputs(clock.date) EXCEPT !.height = h])

Tick ==
    /\ clock.sec - StartClock.sec < MaxSec
    /\ clock' = Clock(clock.date, clock.sec + 1)
    /\ lastEvent' = Event("tick", 0, 0)
    /\ UNCHANGED <<plantsCsv, growthCsv, plantDb, screen>>

NextDay ==
    /\ DaysPassed < MaxDays
    /\ clock' = Clock(NextDate(clock.date), clock.sec)
    /\ lastEvent' = Event("day", 0, 0)
    /\ UNCHANGED <<plantsCsv, growthCsv, plantDb, screen>>

(***************************************************************************)
(* The application from a fresh data directory.                            *)
(***************************************************************************)
Init ==
    /\ plantsCsv = << >>
    /\ growthCsv = << >>
    /\ plantDb = PLANT_DB
    /\ clock = StartClock
    /\ screen = BlankScreen
    /\ lastEvent = Event("boot", 0, 0)

Next ==
    \/ OpenPage
    \/ SaveAddPlant
    \/ Analyze
    \/ MarkWatered
    \/ MarkFertilized
    \/ LogGrowth
    \/ EnterHeight
    \/ SaveGrowth
    \/ Tick

Spec == Init /\ [][Next]_vars

(***************************************************************************)
(* The evaluation of one stored plant, for every stored row of a bounded   *)
(* set: plants.csv holds one row written by hand or by an earlier version, *)
(* and PLANT_DB may have been extended by one species ("You can extend     *)
(* with more species", line 33).                                           *)
(***************************************************************************)
ProbeProfile(K) ==
    [type |-> "Herb", water_interval_days |-> K,
     sunlight_hours_min |-> 6, sunlight_hours_max |-> 6,
     temp_c_min |-> 25, temp_c_max |-> 25,
     fertilizer |-> "Feed monthly"]

ExtendedDb(K) == ("Probe" :> ProbeProfile(K)) @@ PLANT_DB

EvalSpecies == {"Tomato", "Snake Plant", "Ficus", "tomato"}

DateCell(daysAgo) == StrCell(Strftime(DateShift(StartDate, -daysAgo)))

WaterOffsets == {-1, 0, 1, 2, 3, 4, 5, 10, 11, 21, 22}

\* cells that hold no date: empty, letters, a day that does not exist
EmptyCell == StrCell(<< >>)
LettersCell == StrCell(<<"a", "b", "c">>)
NoSuchDayCell == StrCell(<<"2", "0", "2", "3", "-", "0", "2", "-", "2", "9">>)
\* dates written another way: 2024/02/28, and the digits 20240228
SlashCell == StrCell(<<"2", "0", "2", "4", "/", "0", "2", "/", "2", "8">>)
DigitsCell == NumCell(20240228)

WateredCells ==
    { DateCell(k) : k \in WaterOffsets }
        \cup {EmptyCell, LettersCell, NoSuchDayCell, SlashCell, DigitsCell}

FertilizedCells == {EmptyCell, DateCell(13), DateCell(14), LettersCell}

\* sunlight hours, temperature, humidity
Conditions == { <<6, 25, 50>>, <<2, 10, 29>>, <<3, 31, 30>>, <<8, 25, 85>>, <<9, 31, 86>> }

StoredRow(species, lw, lf, c) ==
    [id |-> 7, name |-> "Fern", species |-> species,
     last_watered |-> lw, last_fertilized |-> lf,
     sunlight_hours |-> c[1], temp_c |-> c[2], humidity_percent |-> c[3],
     added_on |-> Strftime(DateShift(StartDate, -30))]

InitEval ==
    /\ \E lw \in WateredCells, lf \in FertilizedCells, c \in Conditions :
          \/ /\ plantDb = PLANT_DB
             /\ \E species \in EvalSpecies :
                   plantsCsv = <<StoredRow(species, lw, lf, c)>>
          \/ /\ \E K \in 1..MaxInterval : plantDb = ExtendedDb(K)
             /\ plantsCsv = <<StoredRow("Probe", lw, lf, c)>>
    /\ growthCsv = << >>
    /\ clock = StartClock
    /\ screen = BlankScreen
    /\ lastEvent = Event("boot", 0, 0)

NextEval ==
    \/ OpenPage
    \/ MarkWatered
    \/ NextDay

SpecEval == InitEval /\ [][NextEval]_vars

(***************************************************************************)
(* Reading the page: the row a card was rendered from, its                 *)
(* recommendations, and the dimension of a recommendation.                 *)
(***************************************************************************)
Cards == 1..Len(screen.cards)

RowOfCard(i) == SortDesc(load_df(plantsCsv))[i]

CardRecs(i) == [j \in 1..Len(screen.cards[i].shown) |-> screen.cards[i].shown[j][2]]

HasBadge(i, badge) ==
    \E j \in 1..Len(screen.cards[i].badges) : screen.cards[i].badges[j] = badge

DimOf(msg) ==
    IF msg \in {"water_unknown", "water_needs", "water_recent", "water_ok"} THEN 1
    ELSE IF msg \in {"fert_missing", "fert_due", "fert_ok"} THEN 2
    ELSE IF msg \in {"sun_low", "sun_high", "sun_ok"} THEN 3
    ELSE IF msg \in {"temp_cold", "temp_hot"} THEN 4
    ELSE IF msg \in {"hum_low", "hum_high"} THEN 5
    ELSE 0

RecsOfDim(recs, dim) ==
    LET OfDim(r) == DimOf(r.msg) = dim IN SelectSeq(recs, OfDim)

InDimensionOrder(recs) ==
    \A j \in 1..Len(recs), k \in 1..Len(recs) :
        j < k => DimOf(recs[j].msg) <= DimOf(recs[k].msg)

\* the elapsed days of the card's row on the day the page was rendered
WaterDays(i) == days_since(RowOfCard(i).last_watered, screen.date)
IdealOfCard(i) == Ideal(plantDb, RowOfCard(i).species)

(***************************************************************************)
(* C1.  Water dimension: for every elapsed-days value d (zero and negative *)
(* included) and every interval K > 0 exactly one outcome is produced, in  *)
(* this order: d >= K+1 gives the NeedsWater badge and the 'N days since   *)
(* watering' text; otherwise d <= max(1, floor(K/2)) gives no water badge  *)
(* and the over-watering caution; otherwise Hydrated and 'hydration looks  *)
(* okay'.  The first two conditions never hold together, and with K = 1    *)
(* Hydrated is never produced.                                             *)
(***************************************************************************)
WaterOutcome(i, d, K, water) ==
    LET needs == d >= K + 1
        half == IF K \div 2 > 1 THEN K \div 2 ELSE 1
        recent == d <= half
    IN /\ K > 0
       /\ Len(water) = 1
       /\ ~(needs /\ recent)
       /\ IF needs
          THEN /\ HasBadge(i, "NeedsWater") /\ ~HasBadge(i, "Hydrated")
               /\ water[1] = Rec("water_needs", d, K, "")
          ELSE IF recent
          THEN /\ ~HasBadge(i, "NeedsWater") /\ ~HasBadge(i, "Hydrated")
               /\ water[1] = Rec("water_recent", 0, 0, "")
          ELSE /\ HasBadge(i, "Hydrated") /\ ~HasBadge(i, "NeedsWater")
               /\ water[1] = Rec("water_ok", 0, 0, "")
       /\ (K = 1 => ~HasBadge(i, "Hydrated"))

C1_WaterOutcome ==
    \A i \in Cards :
        WaterDays(i).st = "ok" =>
            WaterOutcome(i, WaterDays(i).days, IdealOfCard(i).ideal_interval,
                         RecsOfDim(CardRecs(i), 1))

\* a plant of a species with interval 1, watered yesterday: the caution
C1_Witness ==
    \E i \in Cards :
        /\ IdealOfCard(i).ideal_interval = 1
        /\ WaterDays(i) = DaysOk(1)
        /\ RecsOfDim(CardRecs(i), 1) = <<Rec("water_recent", 0, 0, "")>>

(***************************************************************************)
(* C2.  A stored last_watered or last_fertilized that is absent, empty or  *)
(* unparseable as a date gives the 'unknown' result and the evaluation of  *)
(* the plant completes: the dimension emits only its informational text    *)
(* and no badge.                                                           *)
(***************************************************************************)
HoldsNoDate(cell) ==
    \/ cell.k = "nan"
    \/ cell.k = "str" /\ ~Strptime(cell.s).ok /\ ~ToDatetimeStr(cell.s).ok

UnknownDateHandled(i) ==
    /\ i \in Cards
    /\ screen.error = ""
    /\ HoldsNoDate(RowOfCard(i).last_watered) =>
          /\ RecsOfDim(CardRecs(i), 1) = <<Rec("water_unknown", 0, 0, "")>>
          /\ ~HasBadge(i, "NeedsWater") /\ ~HasBadge(i, "Hydrated")
    /\ HoldsNoDate(RowOfCard(i).last_fertilized) =>
          /\ RecsOfDim(CardRecs(i), 2) = <<Rec("fert_missing", 0, 0, "")>>
          /\ ~HasBadge(i, "Fertilize")

C2_UnknownDateNeverRaises ==
    lastEvent.kind # "boot" =>
        \A i \in 1..Len(plantsCsv) :
            (\/ HoldsNoDate(RowOfCard(i).last_watered)
             \/ HoldsNoDate(RowOfCard(i).last_fertilized)) => UnknownDateHandled(i)

(***************************************************************************)
(* C3 as stated.  The recommendations of one evaluation contain one or     *)
(* more strings for each of the five dimensions, in the order water,       *)
(* fertilizer, sunlight, temperature, humidity.                            *)
(***************************************************************************)
C3_EveryDimensionAdvises ==
    \A i \in Cards :
        /\ \A dim \in 1..5 : RecsOfDim(CardRecs(i), dim) # << >>
        /\ InDimensionOrder(CardRecs(i))

(***************************************************************************)
(* C3, amended.  The recommendations of one evaluation contain exactly one *)
(* string for each of water, fertilizer and sunlight, at most one for      *)
(* temperature (none when the temperature is within the ideal range), at   *)
(* most one for humidity (none when it is within 30..85), nothing else,    *)
(* and they appear in the order water, fertilizer, sunlight, temperature,  *)
(* humidity.                                                               *)
(***************************************************************************)
C3_DimensionsInOrder ==
    \A i \in Cards :
        /\ \A dim \in 1..3 : Len(RecsOfDim(CardRecs(i), dim)) = 1
        /\ Len(RecsOfDim(CardRecs(i), 4)) =
              (IF /\ RowOfCard(i).temp_c >= IdealOfCard(i).tmin
                  /\ RowOfCard(i).temp_c <= IdealOfCard(i).tmax THEN 0 ELSE 1)
        /\ Len(RecsOfDim(CardRecs(i), 5)) =
              (IF /\ RowOfCard(i).humidity_percent >= 30
                  /\ RowOfCard(i).humidity_percent <= 85 THEN 0 ELSE 1)
        /\ RecsOfDim(CardRecs(i), 0) = << >>
        /\ InDimensionOrder(CardRecs(i))

\* temperature and humidity both fine: three recommendations, none for them
C3_Witness ==
    \E i \in Cards :
        /\ Len(CardRecs(i)) = 3
        /\ RowOfCard(i).temp_c = 25 /\ RowOfCard(i).humidity_percent = 50

(***************************************************************************)
(* C4.  A species that is no key of the table (the match is case           *)
(* sensitive) gets the default envelope: interval 3, sunlight 3..8,        *)
(* temperature 10..30; and its evaluation is the evaluation of a species   *)
(* whose table entry holds exactly these values.                           *)
(***************************************************************************)
DefaultEnvelope ==
    [ideal_interval |-> 3, sun_min |-> 3, sun_max |-> 8, tmin |-> 10, tmax |-> 30,
     fert_note |-> "Follow package instructions"]

DefaultEntry ==
    [water_interval_days |-> 3, sunlight_hours_min |-> 3, sunlight_hours_max |-> 8,
     temp_c_min |-> 10, temp_c_max |-> 30, fertilizer |-> "Follow package instructions"]

SameAsExplicit(i, e) ==
    /\ ~e.raised
    /\ screen.cards[i].badges = e.badges
    /\ CardRecs(i) = e.recs

C4_DefaultProfile ==
    /\ \A species \in {"Ficus", "tomato", "TOMATO", "Snake plant", ""} :
          Ideal(plantDb, species) = DefaultEnvelope
    /\ \A i \in Cards :
          RowOfCard(i).species \notin DOMAIN PLANT_DB \cup {"Probe"} =>
              /\ IdealOfCard(i) = DefaultEnvelope
              /\ SameAsExplicit(i,
                    Evaluate(RowOfCard(i), screen.date,
                             RowOfCard(i).species :> DefaultEntry, << >>, << >>))

\* "tomato" watered 3 days ago is Hydrated (interval 3); "Tomato" would need water
C4_Witness ==
    \E i \in Cards :
        /\ RowOfCard(i).species = "tomato"
        /\ WaterDays(i) = DaysOk(3)
        /\ HasBadge(i, "Hydrated")

(***************************************************************************)
(* C5.  Evaluation is a pure function of (observation, profile, date):     *)
(* the badges and recommendations of every card are those of evaluating    *)
(* its row alone, with the row's profile, on the day of the run, whatever  *)
(* the run evaluated before it (the quick input, the rows above it) and    *)
(* whatever event triggered it; and two cards whose rows hold the same     *)
(* observation and have the same profile show the same badges and          *)
(* recommendations.                                                        *)
(***************************************************************************)
FertDays(i) == days_since(RowOfCard(i).last_fertilized, screen.date)

Observation(row) ==
    <<row.last_watered, row.last_fertilized, row.sunlight_hours, row.temp_c,
      row.humidity_percent>>

EvaluatedAlone(i) ==
    EvaluateWith(RowOfCard(i), WaterDays(i), FertDays(i), IdealOfCard(i),
                 << >>, << >>)

C5_PureFunction ==
    /\ \A i \in Cards :
          /\ ~EvaluatedAlone(i).raised
          /\ screen.cards[i].badges = EvaluatedAlone(i).badges
          /\ CardRecs(i) = EvaluatedAlone(i).recs
    /\ \A i \in Cards, j \in Cards :
          (/\ Observation(RowOfCard(i)) = Observation(RowOfCard(j))
           /\ IdealOfCard(i) = IdealOfCard(j)) =>
              /\ screen.cards[i].badges = screen.cards[j].badges
              /\ CardRecs(i) = CardRecs(j)

\* the quick input was analysed in the same run, and two plants with
\* different outcomes follow one another in the list
C5_Witness ==
    /\ lastEvent.kind = "analyze"
    /\ screen.ai.kind = "info"
    /\ screen.ai.text.lines # << >>
    /\ Len(screen.cards) = 2
    /\ screen.cards[1].badges # << >>
    /\ screen.cards[1].badges # screen.cards[2].badges

(***************************************************************************)
(* C6.  llm_polish never propagates a failure: when the package is not     *)
(* available or the call raises it returns the text it was given; no run   *)
(* ends on an exception of llm_polish; and the recommendations shown for a *)
(* plant are the engine's own strings, complete and in order, whatever     *)
(* the polishing did.                                                      *)
(***************************************************************************)
PolishFallsBack(text) ==
    \A llm \in LlmOutcomes :
        /\ ~llm_polish(text, llm).raised
        /\ (~llm.available \/ llm.call = "raises") =>
               llm_polish(text, llm) = Returned(text)

ShownVerbatim(i, recs) ==
    /\ Len(screen.cards[i].shown) = Len(recs)
    /\ \A j \in 1..Len(recs) : screen.cards[i].shown[j] = <<"- ", recs[j], "\n">>

SunlightOutcome(i, sun, lo, hi) ==
    /\ sun < lo => HasBadge(i, "LowLight") /\ ~HasBadge(i, "TooMuchSun")
    /\ sun > hi => HasBadge(i, "TooMuchSun") /\ ~HasBadge(i, "LowLight")
    /\ (sun >= lo /\ sun <= hi) =>
          /\ ~HasBadge(i, "LowLight") /\ ~HasBadge(i, "TooMuchSun")
          /\ RecsOfDim(CardRecs(i), 3) = <<Rec("sun_ok", 0, 0, "")>>

C7_SunlightBounds ==
    \A i \in Cards :
        SunlightOutcome(i, RowOfCard(i).sunlight_hours,
                        IdealOfCard(i).sun_min, IdealOfCard(i).sun_max)

\* 6 hours for a species whose range is 6..6: the minimum and the maximum
C7_Witness ==
    \E i \in Cards :
        /\ RowOfCard(i).sunlight_hours = IdealOfCard(i).sun_min
        /\ RowOfCard(i).sunlight_hours = IdealOfCard(i).sun_max
        /\ RecsOfDim(CardRecs(i), 3) = <<Rec("sun_ok", 0, 0, "")>>

(***************************************************************************)
(* C8 as stated.  Scenario A: a Tomato (interval 2, sun 6..8, temperature  *)
(* 18..27) watered 5 days ago, never fertilized, 6 h of sun, 25 C, 50 %    *)
(* humidity: NeedsWater is among the badges, there is no sunlight,         *)
(* temperature or humidity badge, and the fertilizer and the humidity      *)
(* dimension each emit informational text only.                            *)
(***************************************************************************)
ScenarioA(i) ==
    /\ RowOfCard(i).species = "Tomato"
    /\ WaterDays(i) = DaysOk(5)
    /\ RowOfCard(i).last_fertilized = NaN
    /\ RowOfCard(i).sunlight_hours = 6
    /\ RowOfCard(i).temp_c = 25
    /\ RowOfCard(i).humidity_percent = 50

TomatoEnvelope ==
    [ideal_interval |-> 2, sun_min |-> 6, sun_max |-> 8, tmin |-> 18, tmax |-> 27,
     fert_note |-> "Balanced NPK every 2 weeks during growing season"]

ScenarioABadges(i) ==
    /\ IdealOfCard(i) = TomatoEnvelope
    /\ HasBadge(i, "NeedsWater")
    /\ \A b \in {"LowLight", "TooMuchSun", "TooCold", "TooHot", "Fertilize"} :
          ~HasBadge(i, b)
    /\ RecsOfDim(CardRecs(i), 2) = <<Rec("fert_missing", 0, 0, "")>>

C8_ScenarioA ==
    \A i \in Cards :
        ScenarioA(i) => ScenarioABadges(i) /\ RecsOfDim(CardRecs(i), 5) # << >>

(***************************************************************************)
(* C8, amended.  In scenario A NeedsWater is among the badges, there is no *)
(* sunlight, temperature or humidity badge, the fertilizer dimension emits *)
(* informational text only, and the humidity dimension emits nothing.      *)
(***************************************************************************)
C8_ScenarioAQuietHumidity ==
    \A i \in Cards :
        ScenarioA(i) => ScenarioABadges(i) /\ RecsOfDim(CardRecs(i), 5) = << >>

C8_Witness == \E i \in Cards : ScenarioA(i)

(***************************************************************************)
(* C9.  Logging growth: after 'Log Growth' was pressed for a plant, a      *)
(* height entered and 'Save growth' pressed, a row with the plant's id,    *)
(* today's date and the entered height is in the growth log.               *)
(***************************************************************************)
C9_GrowthSaved ==
    lastEvent.kind = "save_growth" =>
        \E i \in 1..Len(growthCsv) :
            growthCsv[i] = GrowthRow(lastEvent.id, clock.date, lastEvent.val)

(***************************************************************************)
(* C10.  After 'Mark Watered' is pressed for a plant, whatever its row     *)
(* held before, the saved row's last_watered is today's date, and the      *)
(* evaluation that follows on the same day gives neither NeedsWater nor    *)
(* Hydrated but the 'watered very recently' caution, for every interval.   *)
(***************************************************************************)
WateredToday(id) ==
    /\ \E i \in 1..Len(plantsCsv) : plantsCsv[i].id = id
    /\ \A i \in 1..Len(plantsCsv) :
          plantsCsv[i].id = id =>
              plantsCsv[i].last_watered = StrCell(Strftime(clock.date))
    /\ screen.date = clock.date
    /\ \E i \in Cards : screen.cards[i].id = id
    /\ \A i \in Cards :
          screen.cards[i].id = id =>
              /\ ~HasBadge(i, "NeedsWater") /\ ~HasBadge(i, "Hydrated")
              /\ RecsOfDim(CardRecs(i), 1) = <<Rec("water_recent", 0, 0, "")>>

C10_MarkWatered == lastEvent.kind = "water" => WateredToday(lastEvent.id)

\* pressed for a plant of a species with interval 1
C10_Witness ==
    /\ lastEvent.kind = "water"
    /\ \E i \in Cards :
          screen.cards[i].id = lastEvent.id /\ IdealOfCard(i).ideal_interval = 1

(***************************************************************************)
(* C11.  Pressing 'Mark Watered' (or 'Mark Fertilized') for one plant      *)
(* changes only the last_watered (or last_fertilized) field of that one    *)
(* plant's row, also after two saves within the same clock second: one row *)
(* with the plant's id takes today's date in that field, and every other   *)
(* row and every other field is as before.                                 *)
(***************************************************************************)
Marked(row, kind, today) ==
    IF kind = "water"
    THEN [row EXCEPT !.last_watered = StrCell(Strftime(today))]
    ELSE [row EXCEPT !.last_fertilized = StrCell(Strftime(today))]

OnlyOneRowMarked(before, after, ev, today) ==
    /\ Len(after) = Len(before)
    /\ \E k \in 1..Len(before) :
          /\ before[k].id = ev.id
          /\ after[k] = Marked(before[k], ev.kind, today)
          /\ \A j \in 1..Len(before) : j # k => after[j] = before[j]

C11_MarkChangesOneRow ==
    [][lastEvent'.kind \in {"water", "fert"} =>
          OnlyOneRowMarked(plantsCsv, plantsCsv', lastEvent', clock.date)]_vars

====
